---------------------------- MODULE Spec2Model ----------------------------
(***************************************************************************)
(* Todo List Manager (src/todo_script.py).                                 *)
(*                                                                         *)
(* A text is a sequence of one-character strings, so that formatting a     *)
(* position, terminating a line and splitting a file into lines are        *)
(* computed and not assumed.  Python positions are 0-based; TLA+           *)
(* sequences are 1-based, so Python's todo_list[i] is todo_list[i + 1].    *)
(***************************************************************************)
EXTENDS Integers, Sequences, FiniteSets, TLC

\* ------------------------------------------------------------------ bounds
\* Number of top-level calls a run of Spec makes.
MaxCalls == 4

\* ------------------------------------------------------------------- texts
NL == "\n"

Digit(d) ==
    CASE d = 0 -> "0" [] d = 1 -> "1" [] d = 2 -> "2" [] d = 3 -> "3"
      [] d = 4 -> "4" [] d = 5 -> "5" [] d = 6 -> "6" [] d = 7 -> "7"
      [] d = 8 -> "8" [] d = 9 -> "9"

\* The decimal text of a natural number: what {i + 1} formats to.
RECURSIVE Str(_)
Str(n) ==
    IF n < 10 THEN <<Digit(n)>> ELSE Str(n \div 10) \o <<Digit(n % 10)>>

\* print(s) writes s and a newline.
Emit(s) == s \o <<NL>>

InvalidIndex ==
    <<"I", "n", "v", "a", "l", "i", "d", " ", "i", "n", "d", "e", "x">>

BuyGroceries ==
    <<"B", "u", "y", " ", "g", "r", "o", "c", "e", "r", "i", "e", "s">>

ReadABook ==
    <<"R", "e", "a", "d", " ", "a", " ", "b", "o", "o", "k">>

TodoTxt == "todo.txt"

\* ------------------------------------------------------------------ inputs
\* Descriptions a caller passes: the empty string, a plain one, and one
\* with an embedded newline.
Descs == {<<>>, <<"a">>, <<"b", NL, "c">>}

\* Indices a caller passes: negative, in range, and past the end.
Indices == -1 .. 3

\* Paths a caller passes to save_tasks.
Paths == {TodoTxt, "notes.txt"}

Missing == [exists |-> FALSE, data |-> <<>>]

File(data) == [exists |-> TRUE, data |-> data]

\* What a path may hold before the program starts: nothing, an empty
\* file, other lines, and more than the script writes.
InitFiles ==
    { Missing,
      File(<<>>),
      File(<<"o", "l", "d", NL, "a">>),
      File(Emit(BuyGroceries) \o Emit(ReadABook) \o Emit(<<"x">>)) }

\* ------------------------------------------------------------------- state
VARIABLES
    todo_list,  \* the module-level list
    stdout,     \* every character written to standard output, in order
    fs,         \* path -> file
    f,          \* the file object of the with statement in save_tasks
    it,         \* save_tasks: 1-based position of the next task to write
    pc,         \* "idle": between top-level calls; "save": inside the with
                \* block; "raised_open" / "raised_write": terminated by the
                \* uncaught exception of open / of f.write
    faults,     \* number of file operations that have failed
    calls       \* history: the top-level calls made so far

vars == <<todo_list, stdout, fs, f, it, pc, faults, calls>>

Closed == [open |-> FALSE, name |-> ""]

Opened(filename) == [open |-> TRUE, name |-> filename]

\* A top-level call: its arguments, len(todo_list) when it was made, and
\* what it wrote to standard output.
Call(op, task, index, filename, out) ==
    [op |-> op, task |-> task, index |-> index, filename |-> filename,
     len |-> Len(todo_list), out |-> out]

Init ==
    /\ todo_list = <<>>
    /\ stdout = <<>>
    /\ fs \in [Paths -> InitFiles]
    /\ f = Closed
    /\ it = 0
    /\ pc = "idle"
    /\ faults = 0
    /\ calls = <<>>

\* -------------------------------------------------------------- operations
\* Mutant: "if task:" before the append, so the empty string is dropped.
AddTaskSkipEmpty(task) ==
    /\ pc = "idle"
    /\ todo_list' = IF task = <<>> THEN todo_list ELSE Append(todo_list, task)
    /\ calls' = Append(calls, Call("add_task", task, 0, "", <<>>))
    /\ UNCHANGED <<stdout, fs, f, it, pc, faults>>

AddTask(task) ==
    /\ pc = "idle"
    /\ todo_list' = Append(todo_list, task)
    /\ calls' = Append(calls, Call("add_task", task, 0, "", <<>>))
    /\ UNCHANGED <<stdout, fs, f, it, pc, faults>>

\* del todo_list[index] for 0 <= index < len(todo_list).
DelAt(list, index) ==
    [k \in 1 .. Len(list) - 1 |-> IF k <= index THEN list[k] ELSE list[k + 1]]

\* Mutant: todo_list.pop() in place of del todo_list[index].
RemoveTaskPopLast(index) ==
    /\ pc = "idle"
    /\ IF 0 <= index /\ index < Len(todo_list)
       THEN /\ todo_list' = SubSeq(todo_list, 1, Len(todo_list) - 1)
            /\ stdout' = stdout
            /\ calls' = Append(calls, Call("remove_task", <<>>, index, "", <<>>))
       ELSE /\ todo_list' = todo_list
            /\ stdout' = stdout \o Emit(InvalidIndex)
            /\ calls' = Append(calls, Call("remove_task", <<>>, index, "",
                                           Emit(InvalidIndex)))
    /\ UNCHANGED <<fs, f, it, pc, faults>>

\* Mutant: "if index < len(todo_list):" without the lower bound, so that a
\* negative index counts from the end (and raises on the empty list).
RemoveTaskNoLowerBound(index) ==
    /\ pc = "idle"
    /\ IF index < Len(todo_list)
       THEN /\ todo_list' = IF index >= 0 THEN DelAt(todo_list, index)
                            ELSE IF Len(todo_list) + index >= 0
                                 THEN DelAt(todo_list, Len(todo_list) + index)
                                 ELSE todo_list
            /\ pc' = IF index < 0 /\ Len(todo_list) + index < 0
                     THEN "raised_index" ELSE pc
            /\ stdout' = stdout
            /\ calls' = Append(calls, Call("remove_task", <<>>, index, "", <<>>))
       ELSE /\ todo_list' = todo_list
            /\ pc' = pc
            /\ stdout' = stdout \o Emit(InvalidIndex)
            /\ calls' = Append(calls, Call("remove_task", <<>>, index, "",
                                           Emit(InvalidIndex)))
    /\ UNCHANGED <<fs, f, it, faults>>

RemoveTask(index) ==
    /\ pc = "idle"
    /\ IF 0 <= index /\ index < Len(todo_list)
       THEN /\ todo_list' = DelAt(todo_list, index)
            /\ stdout' = stdout
            /\ calls' = Append(calls, Call("remove_task", <<>>, index, "", <<>>))
       ELSE /\ todo_list' = todo_list
            /\ stdout' = stdout \o Emit(InvalidIndex)
            /\ calls' = Append(calls, Call("remove_task", <<>>, index, "",
                                           Emit(InvalidIndex)))
    /\ UNCHANGED <<fs, f, it, pc, faults>>

\* Mutant: the position is printed as i, not i + 1.
RECURSIVE ViewLoopZeroBased(_, _)
ViewLoopZeroBased(list, i) ==
    IF i >= Len(list) THEN <<>>
    ELSE Emit(Str(i) \o <<".", " ">> \o list[i + 1]) \o ViewLoopZeroBased(list, i + 1)

\* The loop of view_tasks from 0-based position i on: what it prints.
RECURSIVE ViewLoop(_, _)
ViewLoop(list, i) ==
    IF i >= Len(list) THEN <<>>
    ELSE Emit(Str(i + 1) \o <<".", " ">> \o list[i + 1]) \o ViewLoop(list, i + 1)

\* Mutant: the loop pops each task it prints.
ViewTasksDrain ==
    /\ pc = "idle"
    /\ stdout' = stdout \o ViewLoop(todo_list, 0)
    /\ todo_list' = <<>>
    /\ calls' = Append(calls, Call("view_tasks", <<>>, 0, "", ViewLoop(todo_list, 0)))
    /\ UNCHANGED <<fs, f, it, pc, faults>>

ViewTasks ==
    /\ pc = "idle"
    /\ stdout' = stdout \o ViewLoop(todo_list, 0)
    /\ calls' = Append(calls, Call("view_tasks", <<>>, 0, "", ViewLoop(todo_list, 0)))
    /\ UNCHANGED <<todo_list, fs, f, it, pc, faults>>

\* Mutant: open(filename, 'a'), which keeps what the file held.
SaveOpenAppend(filename) ==
    /\ pc = "idle"
    /\ fs' = [fs EXCEPT ![filename] = File(@.data)]
    /\ f' = Opened(filename)
    /\ it' = 1
    /\ pc' = "save"
    /\ calls' = Append(calls, Call("save_tasks", <<>>, 0, filename, <<>>))
    /\ UNCHANGED <<todo_list, stdout, faults>>

\* open(filename, 'w') succeeds: the file exists and is empty.
SaveOpen(filename) ==
    /\ pc = "idle"
    /\ fs' = [fs EXCEPT ![filename] = File(<<>>)]
    /\ f' = Opened(filename)
    /\ it' = 1
    /\ pc' = "save"
    /\ calls' = Append(calls, Call("save_tasks", <<>>, 0, filename, <<>>))
    /\ UNCHANGED <<todo_list, stdout, faults>>

\* open(filename, 'w') raises: nothing is opened, nothing catches it.
SaveOpenFail(filename) ==
    /\ pc = "idle"
    /\ faults' = faults + 1
    /\ pc' = "raised_open"
    /\ calls' = Append(calls, Call("save_tasks", <<>>, 0, filename, <<>>))
    /\ UNCHANGED <<todo_list, stdout, fs, f, it>>

\* One iteration of the loop: f.write(task + '\n') succeeds.
SaveWrite ==
    /\ pc = "save"
    /\ it <= Len(todo_list)
    /\ fs' = [fs EXCEPT ![f.name].data = @ \o (todo_list[it] \o <<NL>>)]
    /\ it' = it + 1
    /\ UNCHANGED <<todo_list, stdout, f, pc, faults, calls>>

\* Mutant: the write loop sits in try/except, so save_tasks returns.
SaveWriteFailCaught ==
    /\ pc = "save"
    /\ it <= Len(todo_list)
    /\ \E n \in 0 .. Len(todo_list[it]) :
           fs' = [fs EXCEPT ![f.name].data =
                      @ \o SubSeq(todo_list[it] \o <<NL>>, 1, n)]
    /\ f' = Closed
    /\ faults' = faults + 1
    /\ pc' = "idle"
    /\ UNCHANGED <<todo_list, stdout, it, calls>>

\* Mutant: f = open(...) without with, so a raising write leaves f open.
SaveWriteFailLeak ==
    /\ pc = "save"
    /\ it <= Len(todo_list)
    /\ \E n \in 0 .. Len(todo_list[it]) :
           fs' = [fs EXCEPT ![f.name].data =
                      @ \o SubSeq(todo_list[it] \o <<NL>>, 1, n)]
    /\ faults' = faults + 1
    /\ pc' = "raised_write"
    /\ UNCHANGED <<todo_list, stdout, f, it, calls>>

\* f.write(task + '\n') raises after n characters (fewer than all of them)
\* reached the file; the with statement closes f and the exception leaves
\* save_tasks and the script.
SaveWriteFail ==
    /\ pc = "save"
    /\ it <= Len(todo_list)
    /\ \E n \in 0 .. Len(todo_list[it]) :
           fs' = [fs EXCEPT ![f.name].data =
                      @ \o SubSeq(todo_list[it] \o <<NL>>, 1, n)]
    /\ f' = Closed
    /\ faults' = faults + 1
    /\ pc' = "raised_write"
    /\ UNCHANGED <<todo_list, stdout, it, calls>>

\* Mutant: the list is cleared once it is saved.
SaveCloseClear ==
    /\ pc = "save"
    /\ it > Len(todo_list)
    /\ f' = Closed
    /\ pc' = "idle"
    /\ todo_list' = <<>>
    /\ UNCHANGED <<stdout, fs, it, faults, calls>>

\* The loop is over: the with statement closes f and save_tasks returns.
SaveClose ==
    /\ pc = "save"
    /\ it > Len(todo_list)
    /\ f' = Closed
    /\ pc' = "idle"
    /\ UNCHANGED <<todo_list, stdout, fs, it, faults, calls>>

\* ------------------------------------------------- any sequence of calls
\* A process that makes up to MaxCalls top-level calls, in any order and
\* with any arguments; an uncaught exception ends it.
Next ==
    \/ \E task \in Descs : Len(calls) < MaxCalls /\ AddTask(task)
    \/ \E index \in Indices : Len(calls) < MaxCalls /\ RemoveTask(index)
    \/ Len(calls) < MaxCalls /\ ViewTasks
    \/ \E filename \in Paths : Len(calls) < MaxCalls /\ SaveOpen(filename)
    \/ \E filename \in Paths : Len(calls) < MaxCalls /\ SaveOpenFail(filename)
    \/ SaveWrite
    \/ SaveWriteFail
    \/ SaveClose

Spec == Init /\ [][Next]_vars

\* ------------------------------------------------------ the example usage
Stmt(op, task, filename) == [op |-> op, task |-> task, filename |-> filename]

\* Mutant: view_tasks() is called before the second add_task.
ScriptViewEarly ==
    << Stmt("add_task", BuyGroceries, ""),
       Stmt("view_tasks", <<>>, ""),
       Stmt("add_task", ReadABook, ""),
       Stmt("save_tasks", <<>>, TodoTxt) >>

\* The statements at the end of the module, in order.
Script ==
    << Stmt("add_task", BuyGroceries, ""),
       Stmt("add_task", ReadABook, ""),
       Stmt("view_tasks", <<>>, ""),
       Stmt("save_tasks", <<>>, TodoTxt) >>

\* The next statement of the script starts.
ScriptStep ==
    /\ Len(calls) < Len(Script)
    /\ LET s == Script[Len(calls) + 1] IN
         CASE s.op = "add_task" -> AddTask(s.task)
           [] s.op = "view_tasks" -> ViewTasks
           [] s.op = "save_tasks" -> SaveOpen(s.filename) \/ SaveOpenFail(s.filename)

ScriptNext ==
    \/ ScriptStep
    \/ SaveWrite
    \/ SaveWriteFail
    \/ SaveClose

ScriptSpec == Init /\ [][ScriptNext]_vars

LastCall == calls[Len(calls)]

\* This step is the start of a top-level call of op.
Began(op) ==
    /\ Len(calls') = Len(calls) + 1
    /\ calls'[Len(calls')].op = op

Terminated == pc \in {"raised_open", "raised_write"}

HasNL(text) == \E k \in 1 .. Len(text) : text[k] = NL

\* The descriptions appended by the first n calls, in call order.
RECURSIVE Appended(_)
Appended(n) ==
    IF n = 0 THEN <<>>
    ELSE IF calls[n].op = "add_task" THEN Append(Appended(n - 1), calls[n].task)
    ELSE Appended(n - 1)

NumAppends == Cardinality({k \in 1 .. Len(calls) : calls[k].op = "add_task"})

NumInRangeRemoves ==
    Cardinality({k \in 1 .. Len(calls) :
                    /\ calls[k].op = "remove_task"
                    /\ 0 <= calls[k].index
                    /\ calls[k].index < calls[k].len})

\* A text read as newline-delimited lines: each newline ends a line, and
\* characters after the last newline form a last line.
RECURSIVE SplitFrom(_, _, _)
SplitFrom(data, k, cur) ==
    IF k > Len(data) THEN (IF cur = <<>> THEN <<>> ELSE <<cur>>)
    ELSE IF data[k] = NL THEN <<cur>> \o SplitFrom(data, k + 1, <<>>)
    ELSE SplitFrom(data, k + 1, Append(cur, data[k]))

ReadLines(data) == SplitFrom(data, 1, <<>>)

\* "1. d1" newline ... "n. dn" newline.
RECURSIVE Listing(_, _)
Listing(ds, n) ==
    IF n = 0 THEN <<>>
    ELSE Listing(ds, n - 1) \o Str(n) \o <<".", " ">> \o ds[n] \o <<NL>>

\* d1 newline ... dn newline.
RECURSIVE Lines(_, _)
Lines(ds, n) ==
    IF n = 0 THEN <<>> ELSE Lines(ds, n - 1) \o ds[n] \o <<NL>>

StrictPrefix(a, b) == Len(a) < Len(b) /\ a = SubSeq(b, 1, Len(a))

\* ------------------------------------------------------------------ claims
\* C1: remove_task(i) with 0 <= i < length shortens the list by exactly one,
\* keeps every element before position i, moves every element formerly at
\* position j > i to position j - 1, and writes nothing to standard output.
C1_RemoveInRange ==
    [][ LET i == calls'[Len(calls')].index
            n == Len(todo_list)
        IN  (Began("remove_task") /\ 0 <= i /\ i < n) =>
                /\ Len(todo_list') = n - 1
                /\ \A j \in 0 .. n - 1 :
                      /\ j < i => todo_list'[j + 1] = todo_list[j + 1]
                      /\ j > i => todo_list'[(j - 1) + 1] = todo_list[j + 1]
                /\ stdout' = stdout ]_vars

\* A removal at position 1 of three tasks has happened.
C1_Witness ==
    /\ Len(calls) > 0
    /\ LastCall.op = "remove_task"
    /\ LastCall.index = 1
    /\ LastCall.len = 3
    /\ Len(todo_list) = 2

\* C2: remove_task(i) with i < 0 or i >= length (also on the empty list)
\* leaves the list unchanged, writes "Invalid index" and a newline to
\* standard output, raises nothing, and the process goes on to its next call.
C2_RemoveOutOfRange ==
    [][ LET i == calls'[Len(calls')].index
        IN  (Began("remove_task") /\ (i < 0 \/ i >= Len(todo_list))) =>
                /\ todo_list' = todo_list
                /\ stdout' = stdout \o InvalidIndex \o <<NL>>
                /\ pc' = "idle"
                /\ faults' = faults ]_vars

\* An out-of-range removal on two tasks was followed by an append that
\* acted on the same two tasks.
C2_Witness ==
    /\ Len(calls) >= 2
    /\ calls[Len(calls) - 1].op = "remove_task"
    /\ calls[Len(calls) - 1].index >= calls[Len(calls) - 1].len
    /\ calls[Len(calls) - 1].len = 2
    /\ LastCall.op = "add_task"
    /\ LastCall.len = 2
    /\ Len(todo_list) = 3

C4_SaveReadsBack ==
    (Len(calls) > 0 /\ LastCall.op = "save_tasks" /\ pc = "idle") =>
        /\ fs[LastCall.filename].exists
        /\ ReadLines(fs[LastCall.filename].data) = todo_list

\* C4 amended: the same, for lists none of whose descriptions holds a
\* newline character.
C4_SaveReadsBackNoNewline ==
    (/\ Len(calls) > 0 /\ LastCall.op = "save_tasks" /\ pc = "idle"
     /\ \A k \in 1 .. Len(todo_list) : ~HasNL(todo_list[k])) =>
        /\ fs[LastCall.filename].exists
        /\ ReadLines(fs[LastCall.filename].data) = todo_list

\* save_tasks has returned after writing two newline-free tasks, one of
\* them the empty string.
C4_Witness ==
    /\ Len(calls) > 0 /\ LastCall.op = "save_tasks" /\ pc = "idle"
    /\ Len(todo_list) = 2
    /\ \A k \in 1 .. Len(todo_list) : ~HasNL(todo_list[k])
    /\ \E k \in 1 .. Len(todo_list) : todo_list[k] = <<>>

\* C5: add_task(d), for every d including the empty string, raises nothing,
\* lengthens the list by exactly one, puts d last and keeps every earlier
\* element in place; and it can be called whenever the process is between
\* calls.
C5_AppendStep ==
    [][ Began("add_task") =>
            /\ Len(todo_list') = Len(todo_list) + 1
            /\ todo_list'[Len(todo_list')] = calls'[Len(calls')].task
            /\ \A k \in 1 .. Len(todo_list) : todo_list'[k] = todo_list[k]
            /\ pc' = "idle"
            /\ faults' = faults ]_vars

C5_AppendEnabled ==
    pc = "idle" => \A d \in Descs : ENABLED AddTask(d)

\* C5: add_task can always be called between calls, and every call of it
\* appends its argument as the last element, moving nothing else.
C5_Append == []C5_AppendEnabled /\ C5_AppendStep

\* The empty string has been appended to two tasks.
C5_Witness ==
    /\ Len(calls) > 0
    /\ LastCall.op = "add_task"
    /\ LastCall.task = <<>>
    /\ LastCall.len = 2
    /\ Len(todo_list) = 3

\* C6: the script runs add_task("Buy groceries"), add_task("Read a book"),
\* view_tasks(), save_tasks("todo.txt") in this order from the empty list;
\* when it completes normally it has printed exactly "1. Buy groceries" and
\* "2. Read a book", and todo.txt holds exactly the two lines
\* "Buy groceries" and "Read a book", each ended by a newline.
C6_ScriptDone == Len(calls) = 4 /\ pc = "idle"

\* C6: the calls of the script come in the stated order, and its normal
\* completion leaves the stated standard output and todo.txt.
C6_Script ==
    /\ Len(calls) <= 4
    /\ \A k \in 1 .. Len(calls) :
          /\ calls[k].op = <<"add_task", "add_task", "view_tasks", "save_tasks">>[k]
          /\ k = 1 => calls[k].task = BuyGroceries /\ calls[k].len = 0
          /\ k = 2 => calls[k].task = ReadABook
          /\ k = 4 => calls[k].filename = "todo.txt"
    /\ C6_ScriptDone =>
          /\ stdout = <<"1", ".", " ">> \o BuyGroceries \o <<NL>>
                      \o <<"2", ".", " ">> \o ReadABook \o <<NL>>
          /\ fs["todo.txt"].exists
          /\ fs["todo.txt"].data = BuyGroceries \o <<NL>> \o ReadABook \o <<NL>>

\* The script has completed normally.
C6_Witness ==
    /\ C6_ScriptDone
    /\ Len(todo_list) = 2
    /\ ~f.open

\* C7: a failure of open or of a write in save_tasks is not caught and not
\* retried: the process is terminated by it, nothing runs afterwards, and
\* after a failed write the file holds less than the complete contents.
C7_FailureState ==
    /\ faults > 0 =>
          /\ Terminated
          /\ faults = 1
          /\ LastCall.op = "save_tasks"
    /\ pc = "raised_write" =>
          LET file == fs[LastCall.filename]
              full == Lines(todo_list, Len(todo_list))
          IN  /\ ~file.exists \/ StrictPrefix(file.data, full)
              /\ file.data # full

\* C7: a failed open or write terminates the process (one fault, never a
\* second), no step follows termination, and a failed write leaves a strict
\* prefix of the complete contents.
C7_SaveFailureIsFatal == []C7_FailureState /\ [][~Terminated]_vars

\* The second write of a save failed after part of the task was written.
C7_Witness ==
    /\ pc = "raised_write"
    /\ it = 2
    /\ Len(fs[LastCall.filename].data) > Len(todo_list[1]) + 1

\* C8: the file object is open only inside the with block of save_tasks:
\* it is closed when save_tasks returns and when a write raises.
C8_HandleScoped ==
    /\ f.open => pc = "save"
    /\ pc = "save" => f.open /\ f.name = LastCall.filename

\* A write failed part-way through the loop and the file object is closed.
C8_Witness ==
    /\ pc = "raised_write"
    /\ it = 3
    /\ ~f.open

\* C9: two view_tasks calls with no add_task or remove_task call between
\* them write the same output.
C9_ViewTwice ==
    \A j \in 1 .. Len(calls) : \A k \in j + 1 .. Len(calls) :
        (/\ calls[j].op = "view_tasks"
         /\ calls[k].op = "view_tasks"
         /\ \A m \in j + 1 .. k - 1 : calls[m].op \notin {"add_task", "remove_task"})
        => calls[j].out = calls[k].out

\* A non-empty list was viewed, saved and viewed again.
C9_Witness ==
    /\ Len(calls) >= 3
    /\ calls[Len(calls) - 2].op = "view_tasks"
    /\ calls[Len(calls) - 1].op = "save_tasks"
    /\ LastCall.op = "view_tasks"
    /\ LastCall.len >= 1

\* C10: view_tasks and save_tasks (succeeding or failing) leave the list as
\* it is; only add_task and an in-range remove_task change it; the length
\* is the number of appends minus the number of in-range removals.
C10_OnlyMutators ==
    [][ LET c == calls'[Len(calls')]
        IN  /\ (Began("view_tasks") \/ Began("save_tasks") \/ pc = "save")
                  => todo_list' = todo_list
            /\ todo_list' # todo_list =>
                  \/ Began("add_task")
                  \/ Began("remove_task") /\ 0 <= c.index /\ c.index < Len(todo_list)
      ]_vars

C10_Length == Len(todo_list) = NumAppends - NumInRangeRemoves

\* C10: only add_task and in-range remove_task change the list, and its
\* length is appends minus in-range removals.
C10_Frame == []C10_Length /\ C10_OnlyMutators

\* Two appends, one in-range removal, then a save whose write failed.
C10_Witness ==
    /\ pc = "raised_write"
    /\ NumAppends = 2
    /\ NumInRangeRemoves = 1
    /\ Len(todo_list) = 1

=============================================================================
